---- MODULE Spec2Model ----
(***************************************************************************)
(* Omega2D: the Simulation orchestrator (Simulation.cpp / Simulation.h)    *)
(* and the rigid bodies it owns (Body.cpp).                                *)
(*                                                                         *)
(* The clock `time` and the step size `dt` are counted in ticks: the       *)
(* double/float arithmetic of `time += (double)dt` is exact addition here. *)
(* A std::future shared state created by std::async is a task slot; the    *)
(* foreground (GUI) thread and the background tasks interleave statement   *)
(* by statement.                                                           *)
(***************************************************************************)
EXTENDS Integers, Sequences, FiniteSets, TLC

\* ------------------------------------------------------------------ bounds
\* executions of step() launched since the last reset
MaxSteps == 2
\* largest time step, in ticks
MaxDt == 1
\* distinct Body objects a caller can hand to add_boundary
MaxBodies == 2
\* largest panel count of one geometry packet
MaxPanels == 2
\* add_* calls since the last reset, interleaved with stepping
MaxAdds == 1
\* add_* calls since the last reset, when only the collections are exercised
MaxCollAdds == 3
\* length of the collection lists enumerated for the matching loop alone
MaxList == 3
\* Body method calls (set_pos, get_pos, get_vel) made by the caller
MaxKinOps == 4
\* Body method calls made while the configuration is exercised
MaxCfgOps == 2
\* largest time argument handed to get_pos / get_vel, in ticks
MaxTime == 1
\* length of the body list while the body registry is exercised
MaxRegList == 3
\* largest diameter or side of a boundary feature, in length units
MaxSize == 4
\* largest numerator and denominator of the particle spacing _ips
MaxIps == 3

\* ------------------------------------------------------------- vocabulary
\* a null std::shared_ptr<Body>
NullBody == 0
BodyRefs == 0..MaxBodies
Panels == 1..MaxPanels
DtValues == 1..MaxDt
\* input vector lengths handed to add_particles / add_fldpts
ParticleLens == {0, 4, 6, 28}
FldptLens == {0, 3, 4, 28}
\* shared states of std::async alive at once: the one stepfuture holds and
\* the one the right-hand side of the assignment in async_step has made
Slots == {1, 2}
NoFuture == 0
\* the Body objects callers have made: heap addresses of std::shared_ptr<Body>
BodyAddrs == 1..MaxBodies
\* coordinates of a Vec, counted from 1 (index i of the code is i + 1 here)
Coords == 1..2
\* constants handed to set_pos(i, value) and time arguments of the getters
PosValues == {0, 1}
TimeArgs == 0..MaxTime
\* texts handed to set_pos(i, text); the last one has unbalanced parentheses
Texts == {"t", "t*t", "(t"}
\* components of the freestream the GUI writes through addr_fs()
FsValues == {0, 1}
\* names given to Body objects
Names == {"ground", "wing"}
\* diameters and sides of boundary features
Sizes == 1..MaxSize
\* denominators of a fine and of a vanishing particle spacing
FineDen == 10000
TinyDen == 1000000000
\* particle spacings _ips, as <<numerator, denominator>>
IpsValues == ((1..MaxIps) \X (1..MaxIps)) \cup {<<1, FineDen>>, <<1, TinyDen>>}

VARIABLES
  time,               \* double time
  dt,                 \* float dt
  vort,               \* std::vector<Collection> vort
  bdry,               \* std::vector<Collection> bdry
  fldpt,              \* std::vector<Collection> fldpt
  sim_is_initialized,
  step_has_started,
  step_is_finished,
  stepfuture,         \* NoFuture (not valid()) or the slot of its shared state
  tasks,              \* slot -> execution of step() (background or synchronous)
  fg,                 \* where the foreground thread is
  pending,            \* the slot std::async returned, not yet assigned
  launched,           \* history: executions of step() started since the reset
  completed,          \* history: executions of step() that reached their return
  nasync,             \* history: async_step calls since the reset
  nsync,              \* history: synchronous step calls since the reset
  nadds,              \* history: add_* calls since the reset
  inserted,           \* history: Body reference -> panels handed to add_boundary for it
  lastop,             \* history: the foreground call that returned last
  lastret,            \* history: what it returned
  bodies,             \* std::vector<std::shared_ptr<Body>> bodies, as heap addresses
  heap,               \* heap address -> the Body object there, or NoBody
  fs,                 \* float fs[Dimensions]
  diffuse,            \* diff.get_diffuse()
  retstr,             \* history: the advisory lines check_simulation returned last
  nkin,               \* history: Body method calls made by the caller
  stored,             \* history: address -> the constants last stored per coordinate
  exprset,            \* history: address -> was a text ever handed to the coordinate
  feat,               \* the BoundaryFeature the caller holds, or NoFeature
  geom,               \* the ElementPacket its init_elements returned last
  retbody,            \* history: the address get_last_body / get_pointer_to_body returned
  batched,            \* history: elements handed to add_particles, to add_fldpts
  fldmoves,           \* history: the _moves flags of the add_fldpts batches inserted
  settings            \* description, end_time, use_end_time, max_steps, use_max_steps

vars == <<time, dt, vort, bdry, fldpt, sim_is_initialized, step_has_started,
          step_is_finished, stepfuture, tasks, fg, pending, launched, completed,
          nasync, nsync, nadds, inserted, lastop, lastret,
          bodies, heap, fs, diffuse, retstr, nkin, stored, exprset,
          feat, geom, retbody, batched, fldmoves, settings>>

simvars == <<time, vort, bdry, fldpt, sim_is_initialized, step_has_started,
             step_is_finished>>
listvars == <<vort, bdry, fldpt>>
flagvars == <<sim_is_initialized, step_has_started, step_is_finished>>
histvars == <<launched, completed, nasync, nsync, nadds, inserted>>
cfgvars == <<bodies, heap, fs, diffuse, retstr, nkin, stored, exprset>>
bodyvars == <<bodies, heap, nkin, stored, exprset>>
auxvars == <<feat, geom, retbody, batched, fldmoves, settings>>

\* ---------------------------------------------------------------- helpers
RECURSIVE SumSeq(_)
SumSeq(s) == IF s = <<>> THEN 0 ELSE Head(s) + SumSeq(Tail(s))

MinOf(S) == CHOOSE x \in S : \A y \in S : x <= y

\* an execution of step(): where it is, the passes it has made, the clock values
\* its diffusion and convection passes were given, whether another execution
\* touched the collections between its two passes, the clock value it read
NoTask == [pc |-> "none", passes |-> <<>>, tdiff |-> 0, tconv |-> 0, disturbed |-> FALSE,
           loaded |-> 0, failed |-> FALSE, sync |-> FALSE]

\* a slot whose task is inside step()
Running(s) == tasks[s].pc \in {"diffuse", "convect", "load", "store"}
\* no execution of step() is under way
Quiescent == \A s \in Slots : ~Running(s)
FreeSlot == MinOf({s \in Slots : tasks[s].pc = "none"})

\* is_future_ready: valid() and wait_for(0) == ready
is_future_ready(f) == IF f = NoFuture THEN FALSE ELSE tasks[f].pc = "done"

Returned(op, ret) == lastop' = op /\ lastret' = ret

\* no Body object at a heap address
NoBody == [name |-> "unallocated"]

\* the run settings as the constructor leaves them
NoSettings == [description |-> "", end_time |-> 0, use_end_time |-> FALSE,
               max_steps |-> 0, use_max_steps |-> FALSE]

\* no BoundaryFeature object; an ElementPacket with empty arrays
NoFeature == [shape |-> "none"]
NoPacket == [x |-> <<>>, idx |-> <<>>, val |-> <<>>]

\* ------------------------------------------------------------ constructor
\* the constructor, but for the boundary list
InitRest ==
  /\ time = 0
  /\ dt \in DtValues
  /\ vort = <<>>
  /\ fldpt = <<>>
  /\ sim_is_initialized = FALSE
  /\ step_has_started = FALSE
  /\ step_is_finished = FALSE
  /\ stepfuture = NoFuture
  /\ tasks = [s \in Slots |-> NoTask]
  /\ fg = "idle"
  /\ pending = NoFuture
  /\ launched = 0
  /\ completed = 0
  /\ nasync = 0
  /\ nsync = 0
  /\ nadds = 0
  /\ inserted = [b \in BodyRefs |-> 0]
  /\ lastop = "none"
  /\ lastret = "none"
  /\ bodies = <<>>
  /\ heap = [a \in BodyAddrs |-> NoBody]
  /\ fs = <<0, 0>>
  /\ diffuse = TRUE
  /\ retstr = <<>>
  /\ nkin = 0
  /\ stored = [a \in BodyAddrs |-> <<0, 0>>]
  /\ exprset = [a \in BodyAddrs |-> <<FALSE, FALSE>>]
  /\ feat = NoFeature
  /\ geom = NoPacket
  /\ retbody = NullBody
  /\ batched = <<0, 0>>
  /\ fldmoves = <<>>
  /\ settings = NoSettings

Init ==
  /\ InitRest
  /\ bdry = <<>>

\* ------------------------------------------------------ step(), per statement
\* the task record a launch of step() starts with
NewTask(issync) == [NoTask EXCEPT !.pc = "diffuse", !.sync = issync]

\* the executions that are between their two passes when slot s makes a pass
Disturb(t, s) ==
  [x \in Slots |-> IF x # s /\ t[x].pc = "convect" THEN [t[x] EXCEPT !.disturbed = TRUE]
                   ELSE t[x]]

\* diff.step(time, dt, ...): one diffusion pass, given the clock as it is now
Diffuse(s) ==
  /\ fg # "aborted"
  /\ tasks[s].pc = "diffuse"
  /\ tasks' = Disturb([tasks EXCEPT ![s].pc = "convect", ![s].tdiff = time,
                                     ![s].passes = Append(@, "diff")], s)
  /\ UNCHANGED <<simvars, dt, auxvars, stepfuture, fg, pending, histvars, lastop, lastret>>
  /\ UNCHANGED cfgvars

\* conv.advect_2nd(time, dt, ...): one convection pass
Convect(s) ==
  /\ fg # "aborted"
  /\ tasks[s].pc = "convect"
  /\ tasks' = Disturb([tasks EXCEPT ![s].pc = "load", ![s].tconv = time,
                                     ![s].passes = Append(@, "conv")], s)
  /\ UNCHANGED <<simvars, dt, auxvars, stepfuture, fg, pending, histvars, lastop, lastret>>
  /\ UNCHANGED cfgvars

\* a pass of the numerical kernels ends in failure: step() is left by the exception
StepFails(s) ==
  /\ fg # "aborted"
  /\ tasks[s].pc \in {"diffuse", "convect"}
  /\ tasks' = [tasks EXCEPT ![s].pc = "done", ![s].failed = TRUE]
  /\ UNCHANGED <<simvars, dt, auxvars, stepfuture, fg, pending, histvars, lastop, lastret>>
  /\ UNCHANGED cfgvars

\* time += (double)dt, the read of time
LoadTime(s) ==
  /\ fg # "aborted"
  /\ tasks[s].pc = "load"
  /\ tasks' = [tasks EXCEPT ![s].pc = "store", ![s].loaded = time]
  /\ UNCHANGED <<simvars, dt, auxvars, stepfuture, fg, pending, histvars, lastop, lastret>>
  /\ UNCHANGED cfgvars

\* time += (double)dt, the write of time; step() returns
StoreTime(s) ==
  /\ fg # "aborted"
  /\ tasks[s].pc = "store"
  /\ time' = tasks[s].loaded + dt
  /\ completed' = completed + 1
  /\ tasks' = [tasks EXCEPT ![s].pc = "done"]
  /\ UNCHANGED <<dt, auxvars, listvars, flagvars, stepfuture, fg, pending, launched, nasync,
                 nsync, nadds, inserted, lastop, lastret>>
  /\ UNCHANGED cfgvars

\* ----------------------------------------------------------- async stepping
\* async_step, up to the call of std::async: the flag is set and a new thread
\* starts step() before the assignment to stepfuture is carried out
async_step ==
  /\ fg = "idle"
  /\ launched < MaxSteps
  /\ step_has_started' = TRUE
  /\ tasks' = [tasks EXCEPT ![FreeSlot] = NewTask(FALSE)]
  /\ pending' = FreeSlot
  /\ launched' = launched + 1
  /\ nasync' = nasync + 1
  /\ fg' = "async_assign"
  /\ UNCHANGED <<time, dt, auxvars, listvars, sim_is_initialized, step_is_finished, stepfuture,
                 completed, nsync, nadds, inserted, lastop, lastret>>
  /\ UNCHANGED cfgvars

\* async_step, the move assignment stepfuture = ...: releasing the shared state
\* stepfuture held blocks until its task has finished; then async_step returns
async_step_assign ==
  /\ fg = "async_assign"
  /\ stepfuture # NoFuture => tasks[stepfuture].pc = "done"
  /\ tasks' = IF stepfuture = NoFuture THEN tasks ELSE [tasks EXCEPT ![stepfuture] = NoTask]
  /\ stepfuture' = pending
  /\ pending' = NoFuture
  /\ fg' = "idle"
  /\ Returned("async_step", "ok")
  /\ UNCHANGED <<simvars, dt, auxvars, histvars>>
  /\ UNCHANGED cfgvars

\* test_for_new_results that retrieves the result but leaves the started flag set
test_keeps_started ==
  /\ fg = "idle"
  /\ IF ~step_has_started
       THEN /\ Returned("test", "true")
            /\ UNCHANGED <<flagvars, stepfuture, tasks>>
       ELSE IF is_future_ready(stepfuture)
         THEN /\ stepfuture' = NoFuture
              /\ tasks' = [tasks EXCEPT ![stepfuture] = NoTask]
              /\ IF tasks[stepfuture].failed
                   THEN /\ Returned("test", "threw")
                        /\ UNCHANGED flagvars
                   ELSE /\ step_is_finished' = TRUE
                        /\ Returned("test", "true")
                        /\ UNCHANGED <<sim_is_initialized, step_has_started>>
         ELSE /\ Returned("test", "false")
              /\ UNCHANGED <<flagvars, stepfuture, tasks>>
  /\ UNCHANGED <<time, dt, auxvars, listvars, fg, pending, histvars>>
  /\ UNCHANGED cfgvars

\* test_for_new_results that sets the flags on every path past the first test
test_flags_always ==
  /\ fg = "idle"
  /\ IF ~step_has_started
       THEN /\ Returned("test", "true")
            /\ UNCHANGED <<flagvars, stepfuture, tasks>>
       ELSE /\ step_is_finished' = TRUE
            /\ step_has_started' = FALSE
            /\ UNCHANGED sim_is_initialized
            /\ IF is_future_ready(stepfuture)
                 THEN /\ stepfuture' = NoFuture
                      /\ tasks' = [tasks EXCEPT ![stepfuture] = NoTask]
                      /\ Returned("test", IF tasks[stepfuture].failed THEN "threw" ELSE "true")
                 ELSE /\ Returned("test", "false")
                      /\ UNCHANGED <<stepfuture, tasks>>
  /\ UNCHANGED <<time, dt, auxvars, listvars, fg, pending, histvars>>
  /\ UNCHANGED cfgvars

\* test_for_new_results
test_for_new_results ==
  /\ fg = "idle"
  /\ IF ~step_has_started
       THEN /\ Returned("test", "true")
            /\ UNCHANGED <<flagvars, stepfuture, tasks>>
       ELSE IF is_future_ready(stepfuture)
         THEN \* stepfuture.get(): the future gives up its shared state, and
              \* rethrows what step() threw before the flags are touched
              /\ stepfuture' = NoFuture
              /\ tasks' = [tasks EXCEPT ![stepfuture] = NoTask]
              /\ IF tasks[stepfuture].failed
                   THEN /\ Returned("test", "threw")
                        /\ UNCHANGED flagvars
                   ELSE /\ step_is_finished' = TRUE
                        /\ step_has_started' = FALSE
                        /\ Returned("test", "true")
                        /\ UNCHANGED sim_is_initialized
         ELSE /\ Returned("test", "false")
              /\ UNCHANGED <<flagvars, stepfuture, tasks>>
  /\ UNCHANGED <<time, dt, auxvars, listvars, fg, pending, histvars>>
  /\ UNCHANGED cfgvars

\* reset, entered: the foreground thread is inside reset from here on
reset_enter ==
  /\ fg = "idle"
  /\ fg' = "reset_wait"
  /\ UNCHANGED <<simvars, dt, auxvars, stepfuture, tasks, pending, histvars, lastop, lastret>>
  /\ UNCHANGED cfgvars

\* reset without the wait for the step in flight: everything is cleared at once
reset_no_wait ==
  /\ fg = "reset_wait"
  /\ stepfuture' = NoFuture
  /\ tasks' = tasks
  /\ fg' = "idle"
  /\ time' = 0
  /\ vort' = <<>>
  /\ bdry' = <<>>
  /\ fldpt' = <<>>
  /\ sim_is_initialized' = FALSE
  /\ step_has_started' = FALSE
  /\ step_is_finished' = FALSE
  /\ launched' = 0
  /\ completed' = 0
  /\ nasync' = 0
  /\ nsync' = 0
  /\ nadds' = 0
  /\ inserted' = [b \in BodyRefs |-> 0]
  /\ batched' = <<0, 0>>
  /\ fldmoves' = <<>>
  /\ Returned("reset", "ok")
  /\ UNCHANGED <<dt, feat, geom, retbody, settings, pending>>
  /\ UNCHANGED cfgvars

\* a reset that empties the body list as well
reset_clears_bodies ==
  /\ fg = "reset_wait"
  /\ stepfuture # NoFuture => tasks[stepfuture].pc = "done"
  /\ stepfuture' = NoFuture
  /\ tasks' = IF stepfuture = NoFuture THEN tasks ELSE [tasks EXCEPT ![stepfuture] = NoTask]
  /\ fg' = "idle"
  /\ IF stepfuture # NoFuture /\ tasks[stepfuture].failed
       THEN \* stepfuture.get() rethrows: reset is left before anything is cleared
            /\ Returned("reset", "threw")
            /\ UNCHANGED <<simvars, histvars, batched, fldmoves>>
       ELSE /\ time' = 0
            /\ vort' = <<>>
            /\ bdry' = <<>>
            /\ fldpt' = <<>>
            /\ sim_is_initialized' = FALSE
            /\ step_has_started' = FALSE
            /\ step_is_finished' = FALSE
            /\ launched' = 0
            /\ completed' = 0
            /\ nasync' = 0
            /\ nsync' = 0
            /\ nadds' = 0
            /\ inserted' = [b \in BodyRefs |-> 0]
            /\ batched' = <<0, 0>>
            /\ fldmoves' = <<>>
            /\ Returned("reset", "ok")
  /\ bodies' = <<>>
  /\ UNCHANGED <<dt, feat, geom, retbody, settings, pending>>
  /\ UNCHANGED <<heap, fs, diffuse, retstr, nkin, stored, exprset>>

\* reset, from stepfuture.wait() on: wait, get, then clear everything
reset ==
  /\ fg = "reset_wait"
  /\ stepfuture # NoFuture => tasks[stepfuture].pc = "done"
  /\ stepfuture' = NoFuture
  /\ tasks' = IF stepfuture = NoFuture THEN tasks ELSE [tasks EXCEPT ![stepfuture] = NoTask]
  /\ fg' = "idle"
  /\ IF stepfuture # NoFuture /\ tasks[stepfuture].failed
       THEN \* stepfuture.get() rethrows: reset is left before anything is cleared
            /\ Returned("reset", "threw")
            /\ UNCHANGED <<simvars, histvars, batched, fldmoves>>
       ELSE /\ time' = 0
            /\ vort' = <<>>
            /\ bdry' = <<>>
            /\ fldpt' = <<>>
            /\ sim_is_initialized' = FALSE
            /\ step_has_started' = FALSE
            /\ step_is_finished' = FALSE
            /\ launched' = 0
            /\ completed' = 0
            /\ nasync' = 0
            /\ nsync' = 0
            /\ nadds' = 0
            /\ inserted' = [b \in BodyRefs |-> 0]
            /\ batched' = <<0, 0>>
            /\ fldmoves' = <<>>
            /\ Returned("reset", "ok")
  /\ UNCHANGED <<dt, feat, geom, retbody, settings, pending>>
  /\ UNCHANGED cfgvars

\* set_initialized
set_initialized ==
  /\ fg = "idle"
  /\ ~sim_is_initialized
  /\ sim_is_initialized' = TRUE
  /\ UNCHANGED <<time, dt, auxvars, listvars, step_has_started, step_is_finished, stepfuture,
                 tasks, fg, pending, histvars, lastop, lastret>>
  /\ UNCHANGED cfgvars

\* step() called on the foreground thread; callers do so only while no
\* background step is under way
step ==
  /\ fg = "idle"
  /\ Quiescent
  /\ launched < MaxSteps
  /\ tasks' = [tasks EXCEPT ![FreeSlot] = NewTask(TRUE)]
  /\ pending' = FreeSlot
  /\ launched' = launched + 1
  /\ nsync' = nsync + 1
  /\ fg' = "step"
  /\ UNCHANGED <<simvars, dt, auxvars, stepfuture, completed, nasync, nadds, inserted,
                 lastop, lastret>>
  /\ UNCHANGED cfgvars

\* the synchronous step() returns (or its exception reaches the caller)
step_return ==
  /\ fg = "step"
  /\ tasks[pending].pc = "done"
  /\ Returned("step", IF tasks[pending].failed THEN "threw" ELSE "ok")
  /\ tasks' = [tasks EXCEPT ![pending] = NoTask]
  /\ pending' = NoFuture
  /\ fg' = "idle"
  /\ UNCHANGED <<simvars, dt, auxvars, stepfuture, histvars>>
  /\ UNCHANGED cfgvars

\* ------------------------------------------------------------- collections
\* Omega2D is the two-dimensional code: Vec is std::array<double,Dimensions>
Dimensions == 2

\* a Surfaces constructor that does not keep the Body pointer it is given
NewSurfacesDropsBody(n, e, m, bp) ==
  [shape |-> "Surfaces", elemt |-> e, movet |-> m, body |-> NullBody, geoms |-> <<n>>]

\* Surfaces<float>(x, idx, val, e, m, bp): a boundary collection, with the
\* geometry packets it has been given (each packet stands for its panel count)
NewSurfaces(n, e, m, bp) ==
  [shape |-> "Surfaces", elemt |-> e, movet |-> m, body |-> bp, geoms |-> <<n>>]

\* surf.add_new(x, idx, val)
SurfAddNew(coll, n) == [coll EXCEPT !.geoms = Append(@, n)]

\* Surfaces::get_npanels: the panels of all packets the collection was given
SurfNPanels(coll) == SumSeq(coll.geoms)

\* the loop body without the comparison of the body pointers
ThisMatchNoBody(coll, this_move_type, bptr) ==
  /\ "reactive" = coll.elemt
  /\ this_move_type = coll.movet

\* the body of the search loop of add_boundary: does collection coll match?
ThisMatch(coll, this_move_type, bptr) ==
  /\ "reactive" = coll.elemt
  /\ this_move_type = coll.movet
  /\ (this_move_type = "bodybound" /\ coll.movet = "bodybound") => bptr = coll.body

\* the search loop that never records a match
MatchLoopNoRecord(list, this_move_type, bptr, i, imatch) == 0

\* the search loop of add_boundary from index i on; imatch = 0 stands for no_match
RECURSIVE MatchLoop(_, _, _, _, _)
MatchLoop(list, this_move_type, bptr, i, imatch) ==
  IF i > Len(list) THEN imatch
  ELSE MatchLoop(list, this_move_type, bptr, i + 1,
                 IF ThisMatch(list[i], this_move_type, bptr) THEN i ELSE imatch)

MoveTypeOf(bptr) == IF bptr # NullBody THEN "bodybound" ELSE "fixed"

\* the boundary list add_boundary(bptr, geom) leaves
BdryAfterAdd(list, bptr, n) ==
  LET this_move_type == MoveTypeOf(bptr)
      imatch == MatchLoop(list, this_move_type, bptr, 1, 0)
  IN IF imatch = 0
       THEN Append(list, NewSurfaces(n, "reactive", this_move_type, bptr))
       ELSE IF list[imatch].shape = "Surfaces"
              THEN [list EXCEPT ![imatch] = SurfAddNew(list[imatch], n)]
              ELSE list

\* add_boundary; callers add geometry only while no step is under way
add_boundary(bptr, n) ==
  /\ fg = "idle"
  /\ Quiescent
  /\ bdry' = BdryAfterAdd(bdry, bptr, n)
  /\ inserted' = [inserted EXCEPT ![bptr] = @ + n]
  /\ nadds' = nadds + 1
  /\ Returned("add_boundary", "ok")
  /\ UNCHANGED <<time, dt, auxvars, vort, fldpt, flagvars, stepfuture, tasks, fg, pending,
                 launched, completed, nasync, nsync>>
  /\ UNCHANGED cfgvars

\* get_npanels
RECURSIVE NPanelsFrom(_, _)
NPanelsFrom(list, i) ==
  IF i > Len(list) THEN 0
  ELSE (IF list[i].shape = "Surfaces" THEN SurfNPanels(list[i]) ELSE 0)
       + NPanelsFrom(list, i + 1)
get_npanels == NPanelsFrom(bdry, 1)

\* the entries of a caller's vector are labelled by their index, so that an
\* element shows which entries it was read from
InVec(len) == [k \in 1..len |-> k - 1]

\* the label of get_vdelta(), which add_particles writes over every radius
ThisVd == -1

\* the label of what a read past the end of a std::vector yields, if it yields
Indeterminate == -2

\* the vector add_particles hands on: _invec[i] = thisvd for i = 3, 7, 11, ...
ParticleVec(len) == [k \in 1..len |-> IF (k - 1) % 4 = 3 THEN ThisVd ELSE k - 1]

\* _in[k], k counted from 0 as the code does
At(in, k) == IF k < Len(in) THEN in[k + 1] ELSE Indeterminate

\* a disengaged optional strength array
NoStrength == <<>>

\* the strength block of the Points constructor: new_s[d][i] = _in[7*i+d+3]
PointsCtorStrength(in, n) ==
  [d \in 1..3 |-> [i \in 1..n |-> At(in, 7 * (i - 1) + (d - 1) + 3)]]

\* a constructor that fills the strength array of the inert elements instead
NewPointsInertStrength(in, e, m) ==
  LET n == Len(in) \div 4 IN
  [shape |-> "Points", elemt |-> e, movet |-> m, body |-> NullBody, n |-> n,
   x |-> [d \in 1..Dimensions |-> [i \in 1..n |-> At(in, 4 * (i - 1) + (d - 1))]],
   r |-> [i \in 1..n |-> At(in, 4 * (i - 1) + 3)],
   s |-> IF e = "inert" THEN PointsCtorStrength(in, n) ELSE NoStrength]

\* Points<float>(in, e, m, nullptr): n = in.size()/4 elements, x[d][i] and r[i]
\* as the constructor fills them, s engaged for every kind but inert
NewPoints(in, e, m) ==
  LET n == Len(in) \div 4 IN
  [shape |-> "Points", elemt |-> e, movet |-> m, body |-> NullBody, n |-> n,
   x |-> [d \in 1..Dimensions |-> [i \in 1..n |-> At(in, 4 * (i - 1) + (d - 1))]],
   r |-> [i \in 1..n |-> At(in, 4 * (i - 1) + 3)],
   s |-> IF e # "inert" THEN PointsCtorStrength(in, n) ELSE NoStrength]

\* the indices of _in the constructor reads
PointsCtorReads(len, e) ==
  LET n == len \div 4 IN
    {4 * i + d : i \in 0..(n - 1), d \in 0..(Dimensions - 1)}
    \cup {4 * i + 3 : i \in 0..(n - 1)}
    \cup (IF e # "inert" THEN {7 * i + d + 3 : i \in 0..(n - 1), d \in 0..2} ELSE {})

\* the constructor reads past the end of its vector: undefined behaviour
PointsCtorOverrun(len, e) == \E k \in PointsCtorReads(len, e) : k >= len

\* the assertion at the head of the Points constructor
PointsCtorAssert(len) == len % 7 = 0

\* pts.add_new(in): in.size()/4 more elements; the arrays x, r, s stay as the
\* constructor built them, the growth is kept in n
PointsAddNew(coll, in) == [coll EXCEPT !.n = @ + Len(in) \div 4]

\* add_particles / add_fldpts with a push_back for every batch
PointsAfterAddAlwaysNew(list, in, e, m) ==
  IF PointsCtorAssert(Len(in)) THEN Append(list, NewPoints(in, e, m)) ELSE "abort"

\* an append that gives the collection the motion kind of the new batch
PointsAfterAddRetype(list, in, e, m) ==
  IF Len(list) = 0
    THEN IF PointsCtorAssert(Len(in)) THEN <<NewPoints(in, e, m)>> ELSE "abort"
    ELSE [list EXCEPT ![Len(list)] = [PointsAddNew(list[Len(list)], in) EXCEPT !.movet = m]]

\* what add_particles / add_fldpts do to their list once the length checks of
\* the caller have passed: "abort" stands for a failed assertion
PointsAfterAdd(list, in, e, m) ==
  IF Len(list) = 0
    THEN IF PointsCtorAssert(Len(in)) THEN <<NewPoints(in, e, m)>> ELSE "abort"
    ELSE IF list[Len(list)].shape = "Points"
           THEN [list EXCEPT ![Len(list)] = PointsAddNew(list[Len(list)], in)]
           ELSE list

\* add_particles; where the constructor runs past the end of the vector the
\* process either goes on with whatever was read or is stopped by the fault
add_particles(len) ==
  /\ fg = "idle"
  /\ Quiescent
  /\ nadds' = nadds + 1
  /\ IF len = 0
       THEN /\ Returned("add_particles", "ok")
            /\ UNCHANGED <<vort, fg, batched>>
       ELSE IF len % 4 # 0
                 \/ PointsAfterAdd(vort, ParticleVec(len), "active", "lagrangian") = "abort"
         THEN /\ fg' = "aborted"
              /\ Returned("add_particles", "abort")
              /\ UNCHANGED <<vort, batched>>
         ELSE \/ /\ vort' = PointsAfterAdd(vort, ParticleVec(len), "active", "lagrangian")
                 /\ batched' = [batched EXCEPT ![1] = @ + len \div 4]
                 /\ Returned("add_particles", "ok")
                 /\ UNCHANGED fg
              \/ /\ Len(vort) = 0
                 /\ PointsCtorOverrun(len, "active")
                 /\ fg' = "aborted"
                 /\ Returned("add_particles", "fault")
                 /\ UNCHANGED <<vort, batched>>
  /\ UNCHANGED <<time, dt, feat, geom, retbody, settings, fldmoves, bdry, fldpt, flagvars, stepfuture, tasks,
                 pending, launched, completed, nasync, nsync, inserted>>
  /\ UNCHANGED cfgvars

\* add_fldpts; for inert elements the constructor reads the entries 4i+d and
\* 4i+3 only
add_fldpts(len, moves) ==
  /\ fg = "idle"
  /\ Quiescent
  /\ nadds' = nadds + 1
  /\ LET move_type == IF moves THEN "lagrangian" ELSE "fixed" IN
     IF len = 0
       THEN /\ Returned("add_fldpts", "ok")
            /\ UNCHANGED <<fldpt, fg, batched, fldmoves>>
       ELSE IF len % Dimensions # 0
                 \/ PointsAfterAdd(fldpt, InVec(len), "inert", move_type) = "abort"
         THEN /\ fg' = "aborted"
              /\ Returned("add_fldpts", "abort")
              /\ UNCHANGED <<fldpt, batched, fldmoves>>
         ELSE /\ fldpt' = PointsAfterAdd(fldpt, InVec(len), "inert", move_type)
              /\ batched' = [batched EXCEPT ![2] = @ + len \div 4]
              /\ fldmoves' = Append(fldmoves, moves)
              /\ Returned("add_fldpts", "ok")
              /\ UNCHANGED fg
  /\ UNCHANGED <<time, dt, feat, geom, retbody, settings, vort, bdry, flagvars, stepfuture, tasks,
                 pending, launched, completed, nasync, nsync, inserted>>
  /\ UNCHANGED cfgvars

\* ------------------------------------------------------------ rigid bodies
\* a null te_expr pointer, as pos_func.resize(Dimensions) leaves them
NullFunc == <<>>

\* te_compile(text, vars, 1, &ierr): the compiled function of t, held as the
\* coefficients <<a, b, c>> of a + b*t + c*t*t; a null pointer when the text
\* does not parse
te_compile(text) ==
  CASE text = "t" -> <<0, 1, 0>>
    [] text = "t*t" -> <<0, 0, 1>>
    [] OTHER -> NullFunc

\* te_eval(f) with the bound variable this_time = <<t, o>>, which stands for
\* t + o*h, h being the difference step 1.e-5 of get_vel: the value is
\* v[1] + v[2]*h + v[3]*h*h
te_eval(f, tt) ==
  <<f[1] + f[2] * tt[1] + f[3] * tt[1] * tt[1],
    (f[2] + 2 * f[3] * tt[1]) * tt[2],
    f[3] * tt[2] * tt[2]>>

\* (pplus - pminus) / (2.0*dt) of get_vel: the h*h terms cancel, what is
\* left is the coefficient of h, halved
FiniteDiff(pplus, pminus) == (pplus[2] - pminus[2]) \div 2

\* Body::Body(_x, _y)
BodyCtor(_x, _y) ==
  [name |-> "", this_time |-> <<0, 0>>, pos |-> <<_x, _y>>, vel |-> <<0, 0>>,
   apos |-> 0, avel |-> 0, pos_expr |-> <<"", "">>,
   pos_func |-> <<NullFunc, NullFunc>>]

\* a set_pos that writes the other coordinate
SetPosValOtherCoord(b, i, val) == [b EXCEPT !.pos[3 - i] = val]

\* Body::set_pos(_i, _val) with a constant
SetPosVal(b, i, val) == [b EXCEPT !.pos[i] = val]

\* Body::set_pos(_i, _val) with a text: the text is kept and whatever
\* te_compile returns replaces the compiled function
SetPosExpr(b, i, text) ==
  [b EXCEPT !.pos_expr[i] = text, !.pos_func[i] = te_compile(text)]

\* Body::get_pos(_time): the Body it leaves; its pos is what is returned
BodyGetPos(b, _time) ==
  [b EXCEPT !.this_time = <<_time, 0>>,
            !.pos = [i \in Coords |->
                       IF b.pos_func[i] # NullFunc
                         THEN te_eval(b.pos_func[i], <<_time, 0>>)[1]
                         ELSE b.pos[i]]]

\* Body::get_vel(_time): the Body it leaves; its vel is what is returned
BodyGetVel(b, _time) ==
  [b EXCEPT !.this_time = IF \E i \in Coords : b.pos_func[i] # NullFunc
                            THEN <<_time, -1>> ELSE @,
            !.vel = [i \in Coords |->
                       IF b.pos_func[i] # NullFunc
                         THEN FiniteDiff(te_eval(b.pos_func[i], <<_time, 1>>),
                                         te_eval(b.pos_func[i], <<_time, -1>>))
                         ELSE b.vel[i]]]

\* Body::get_rotvel(_time)
BodyGetRotvel(b, _time) == b.avel

\* std::make_shared<Body>(): a new Body at the lowest free address
make_body ==
  /\ fg = "idle"
  /\ \E a \in BodyAddrs : heap[a] = NoBody
  /\ LET a == MinOf({x \in BodyAddrs : heap[x] = NoBody}) IN
       /\ heap' = [heap EXCEPT ![a] = BodyCtor(0, 0)]
       /\ stored' = [stored EXCEPT ![a] = <<0, 0>>]
       /\ exprset' = [exprset EXCEPT ![a] = <<FALSE, FALSE>>]
  /\ UNCHANGED <<simvars, dt, auxvars, stepfuture, tasks, fg, pending, histvars, lastop,
                 lastret, bodies, fs, diffuse, retstr, nkin>>

\* add_body
add_body(a) ==
  /\ fg = "idle"
  /\ heap[a] # NoBody
  /\ bodies' = Append(bodies, a)
  /\ Returned("add_body", "ok")
  /\ UNCHANGED <<simvars, dt, auxvars, stepfuture, tasks, fg, pending, histvars,
                 heap, fs, diffuse, retstr, nkin, stored, exprset>>

\* a caller's set_pos(i, value) on the Body at address a
set_pos(a, i, val) ==
  /\ heap[a] # NoBody
  /\ heap' = [heap EXCEPT ![a] = SetPosVal(@, i, val)]
  /\ stored' = [stored EXCEPT ![a][i] = val]
  /\ nkin' = nkin + 1
  /\ UNCHANGED <<simvars, dt, auxvars, stepfuture, tasks, fg, pending, histvars, lastop,
                 lastret, bodies, fs, diffuse, retstr, exprset>>

\* a caller's set_pos(i, text) on the Body at address a
set_pos_expr(a, i, text) ==
  /\ heap[a] # NoBody
  /\ heap' = [heap EXCEPT ![a] = SetPosExpr(@, i, text)]
  /\ exprset' = [exprset EXCEPT ![a][i] = TRUE]
  /\ nkin' = nkin + 1
  /\ UNCHANGED <<simvars, dt, auxvars, stepfuture, tasks, fg, pending, histvars, lastop,
                 lastret, bodies, fs, diffuse, retstr, stored>>

\* a caller's get_pos(_time) on the Body at address a
get_pos(a, _time) ==
  /\ heap[a] # NoBody
  /\ heap' = [heap EXCEPT ![a] = BodyGetPos(@, _time)]
  /\ nkin' = nkin + 1
  /\ UNCHANGED <<simvars, dt, auxvars, stepfuture, tasks, fg, pending, histvars, lastop,
                 lastret, bodies, fs, diffuse, retstr, stored, exprset>>

\* a caller's get_vel(_time) on the Body at address a
get_vel(a, _time) ==
  /\ heap[a] # NoBody
  /\ heap' = [heap EXCEPT ![a] = BodyGetVel(@, _time)]
  /\ nkin' = nkin + 1
  /\ UNCHANGED <<simvars, dt, auxvars, stepfuture, tasks, fg, pending, histvars, lastop,
                 lastret, bodies, fs, diffuse, retstr, stored, exprset>>

\* ------------------------------------------------------------ body registry
\* Body::set_name
SetName(b, _name) == [b EXCEPT !.name = _name]

\* a caller's set_name(_name) on the Body at address a
set_name(a, _name) ==
  /\ heap[a] # NoBody
  /\ heap' = [heap EXCEPT ![a] = SetName(@, _name)]
  /\ UNCHANGED <<simvars, dt, auxvars, stepfuture, tasks, fg, pending, histvars, lastop,
                 lastret, bodies, fs, diffuse, retstr, nkin, stored, exprset>>

\* the lowest free heap address, where std::make_shared<Body>() puts its object
FreeAddr(h) == MinOf({x \in BodyAddrs : h[x] = NoBody})

\* bp = std::make_shared<Body>(); bp->set_name("ground"); add_body(bp): the
\* body list, the heap and bp afterwards
MakeGround(bl, h) ==
  LET a == FreeAddr(h) IN
    [bodies |-> Append(bl, a),
     heap |-> [h EXCEPT ![a] = SetName(BodyCtor(0, 0), "ground")],
     bp |-> a]

\* a get_last_body that returns the first body of the list
GetLastBodyFront(bl, h) ==
  IF Len(bl) = 0 THEN MakeGround(bl, h)
  ELSE [bodies |-> bl, heap |-> h, bp |-> bl[1]]

\* get_last_body: the body list, the heap and the pointer returned
GetLastBody(bl, h) ==
  IF Len(bl) = 0 THEN MakeGround(bl, h)
  ELSE [bodies |-> bl, heap |-> h, bp |-> bl[Len(bl)]]

\* the loop of get_pointer_to_body from index i on: a body whose name matches
\* is reported on std::cout, bp is left as it is
RECURSIVE NameLoop(_, _, _, _, _)
NameLoop(bl, h, _name, i, bp) ==
  IF i > Len(bl) THEN bp
  ELSE NameLoop(bl, h, _name, i + 1, IF h[bl[i]].name = _name THEN bp ELSE bp)

\* get_pointer_to_body: the body list, the heap and the pointer returned
GetPointerToBody(bl, h, _name) ==
  LET bp == NameLoop(bl, h, _name, 1, NullBody) IN
    IF bp = NullBody THEN MakeGround(bl, h)
    ELSE [bodies |-> bl, heap |-> h, bp |-> bp]

\* get_last_body, while the heap has room for the Body it may create
get_last_body ==
  /\ fg = "idle"
  /\ Len(bodies) = 0 => \E a \in BodyAddrs : heap[a] = NoBody
  /\ Returned("get_last_body", "ok")
  /\ LET r == GetLastBody(bodies, heap) IN
       /\ bodies' = r.bodies
       /\ heap' = r.heap
       /\ retbody' = r.bp
  /\ UNCHANGED <<simvars, dt, feat, geom, batched, fldmoves, settings, stepfuture, tasks, fg, pending, histvars,
                 fs, diffuse, retstr, nkin, stored, exprset>>

\* get_pointer_to_body, while the heap has room for the Body it may create
get_pointer_to_body(_name) ==
  /\ fg = "idle"
  /\ NameLoop(bodies, heap, _name, 1, NullBody) = NullBody
       => \E a \in BodyAddrs : heap[a] = NoBody
  /\ Returned("get_pointer_to_body", "ok")
  /\ LET r == GetPointerToBody(bodies, heap, _name) IN
       /\ bodies' = r.bodies
       /\ heap' = r.heap
       /\ retbody' = r.bp
  /\ UNCHANGED <<simvars, dt, feat, geom, batched, fldmoves, settings, stepfuture, tasks, fg, pending, histvars,
                 fs, diffuse, retstr, nkin, stored, exprset>>

\* clear_bodies; the Body objects stay where they are for those who still hold
\* a pointer to them
clear_bodies ==
  /\ fg = "idle"
  /\ bodies' = <<>>
  /\ Returned("clear_bodies", "ok")
  /\ UNCHANGED <<simvars, dt, auxvars, stepfuture, tasks, fg, pending, histvars,
                 heap, fs, diffuse, retstr, nkin, stored, exprset>>

\* ------------------------------------------------------------ run settings
\* set_description
set_description(desc) ==
  /\ fg = "idle"
  /\ settings' = [settings EXCEPT !.description = desc]
  /\ UNCHANGED <<simvars, dt, feat, geom, retbody, batched, fldmoves, stepfuture, tasks,
                 fg, pending, histvars, lastop, lastret, cfgvars>>

\* set_end_time
set_end_time(net) ==
  /\ fg = "idle"
  /\ settings' = [settings EXCEPT !.end_time = net, !.use_end_time = TRUE]
  /\ UNCHANGED <<simvars, dt, feat, geom, retbody, batched, fldmoves, stepfuture, tasks,
                 fg, pending, histvars, lastop, lastret, cfgvars>>

\* set_max_steps
set_max_steps(nms) ==
  /\ fg = "idle"
  /\ settings' = [settings EXCEPT !.max_steps = nms, !.use_max_steps = TRUE]
  /\ UNCHANGED <<simvars, dt, feat, geom, retbody, batched, fldmoves, stepfuture, tasks,
                 fg, pending, histvars, lastop, lastret, cfgvars>>

\* ----------------------------------------------------------- status queries
Abs(x) == IF x < 0 THEN -x ELSE x

\* std::numeric_limits<float>::epsilon() lies strictly between 0 and one unit
\* of the integer grid the model computes on
ExceedsEpsilon(x) == x > 0
BelowEpsilon(x) == x < 1

\* get_nparts / get_nfldpts: the get_n() of every collection of the list
RECURSIVE NElemsFrom(_, _)
NElemsFrom(list, i) ==
  IF i > Len(list) THEN 0 ELSE list[i].n + NElemsFrom(list, i + 1)
get_nparts == NElemsFrom(vort, 1)
get_nfldpts == NElemsFrom(fldpt, 1)

\* the test of one body in do_any_bodies_move: the four getter calls in the
\* order of the code, the Body they leave, and whether the body counts as moving
BodyMoveTest(b) ==
  LET b1 == BodyGetVel(b, time)
      thisvel == b1.vel
      b2 == BodyGetVel(b1, time + dt)
      nextvel == b2.vel
      thisrot == BodyGetRotvel(b2, time)
      nextrot == BodyGetRotvel(b2, time + dt)
  IN [body |-> b2,
      moves |-> ExceedsEpsilon(Abs(thisvel[1]) + Abs(thisvel[2]) + Abs(thisrot)
                               + Abs(nextvel[1]) + Abs(nextvel[2]) + Abs(nextrot))]

\* a scan in which the last body of the list decides
MoveLoopLastWins(h, i, some_move) ==
  IF Len(bodies) = 0 THEN [heap |-> h, some_move |-> FALSE]
  ELSE [heap |-> h, some_move |-> BodyMoveTest(h[bodies[Len(bodies)]]).moves]

\* the loop of do_any_bodies_move from index i on: the heap it leaves and some_move
RECURSIVE MoveLoop(_, _, _)
MoveLoop(h, i, some_move) ==
  IF i > Len(bodies) THEN [heap |-> h, some_move |-> some_move]
  ELSE LET r == BodyMoveTest(h[bodies[i]])
       IN MoveLoop([h EXCEPT ![bodies[i]] = r.body], i + 1, some_move \/ r.moves)

\* do_any_bodies_move, called by the foreground thread
do_any_bodies_move ==
  /\ fg = "idle"
  /\ lastop' = "do_any_bodies_move"
  /\ UNCHANGED <<simvars, dt, auxvars, stepfuture, tasks, fg, pending, histvars,
                 bodies, fs, diffuse, retstr, nkin, stored, exprset>>
  /\ LET r == MoveLoop(heap, 1, FALSE) IN
       /\ heap' = r.heap
       /\ lastret' = IF r.some_move THEN "true" ELSE "false"

\* a check whose first test also asks for a zero freestream
CheckResultFirstNeedsCalm(_nff, _nbf) ==
  IF _nbf = 0 /\ get_nparts = 0 /\ BelowEpsilon(fs[1] * fs[1] + fs[2] * fs[2])
    THEN [heap |-> heap, retstr |-> <<"NoFlowNoBodies">>]
    ELSE [heap |-> heap, retstr |-> <<>>]

\* a check that goes on to the diffusion test after the freestream advisory
CheckResultNoEarlyReturn(_nff, _nbf) ==
  LET first == IF _nbf = 0 /\ get_nparts = 0 THEN <<"NoFlowNoBodies">> ELSE <<>>
  IN IF _nbf > 0 /\ get_nparts = 0
       THEN LET r == MoveLoop(heap, 1, FALSE)
                second == IF BelowEpsilon(fs[1] * fs[1] + fs[2] * fs[2]) /\ ~r.some_move
                            THEN Append(first, "NoFreestream") ELSE first
            IN [heap |-> r.heap,
                retstr |-> IF ~diffuse THEN Append(second, "NoDiffusion") ELSE second]
       ELSE [heap |-> heap, retstr |-> first]

\* a check whose diffusion test is inverted
CheckResultDiffusionInverted(_nff, _nbf) ==
  LET first == IF _nbf = 0 /\ get_nparts = 0 THEN <<"NoFlowNoBodies">> ELSE <<>>
  IN IF _nbf > 0 /\ get_nparts = 0
       THEN LET r == MoveLoop(heap, 1, FALSE)
            IN IF BelowEpsilon(fs[1] * fs[1] + fs[2] * fs[2]) /\ ~r.some_move
                 THEN [heap |-> r.heap, retstr |-> Append(first, "NoFreestream")]
                 ELSE IF diffuse
                   THEN [heap |-> r.heap, retstr |-> Append(first, "NoDiffusion")]
                   ELSE [heap |-> r.heap, retstr |-> first]
       ELSE [heap |-> heap, retstr |-> first]

\* what check_simulation(_nff, _nbf) returns and the heap it leaves; an
\* advisory line is held as its tag
CheckResult(_nff, _nbf) ==
  LET first == IF _nbf = 0 /\ get_nparts = 0 THEN <<"NoFlowNoBodies">> ELSE <<>>
  IN IF _nbf > 0 /\ get_nparts = 0
       THEN LET zero_freestream == BelowEpsilon(fs[1] * fs[1] + fs[2] * fs[2])
                r == MoveLoop(heap, 1, FALSE)
                no_body_movement == ~r.some_move
            IN IF zero_freestream /\ no_body_movement
                 THEN [heap |-> r.heap, retstr |-> Append(first, "NoFreestream")]
                 ELSE IF ~diffuse
                   THEN [heap |-> r.heap, retstr |-> Append(first, "NoDiffusion")]
                   ELSE [heap |-> r.heap, retstr |-> first]
       ELSE [heap |-> heap, retstr |-> first]

\* a check_simulation that treats an advisory as an error and stops the run
check_simulation_stops(_nff, _nbf) ==
  /\ fg = "idle"
  /\ heap' = CheckResult(_nff, _nbf).heap
  /\ retstr' = CheckResult(_nff, _nbf).retstr
  /\ sim_is_initialized' = (sim_is_initialized /\ retstr' = <<>>)
  /\ fg' = IF retstr' = <<>> THEN fg ELSE "aborted"
  /\ Returned("check_simulation", "advisory")
  /\ UNCHANGED <<time, listvars, step_has_started, step_is_finished, dt, auxvars, stepfuture,
                 tasks, pending, histvars, bodies, fs, diffuse, nkin, stored, exprset>>

\* check_simulation, called by the foreground thread
check_simulation(_nff, _nbf) ==
  /\ fg = "idle"
  /\ Returned("check_simulation", "advisory")
  /\ UNCHANGED <<simvars, dt, auxvars, stepfuture, tasks, fg, pending, histvars,
                 bodies, fs, diffuse, nkin, stored, exprset>>
  /\ LET r == CheckResult(_nff, _nbf) IN
       /\ heap' = r.heap
       /\ retstr' = r.retstr

\* the GUI writes the freestream through addr_fs()
set_fs(v) ==
  /\ fg = "idle"
  /\ fs' = v
  /\ UNCHANGED <<simvars, dt, auxvars, stepfuture, tasks, fg, pending, histvars, lastop,
                 lastret, bodies, heap, diffuse, retstr, nkin, stored, exprset>>

\* set_diffuse
set_diffuse(_do_diffuse) ==
  /\ fg = "idle"
  /\ diffuse' = _do_diffuse
  /\ UNCHANGED <<simvars, dt, auxvars, stepfuture, tasks, fg, pending, histvars, lastop,
                 lastret, bodies, heap, fs, retstr, nkin, stored, exprset>>

\* drawGL reads the three lists exactly when this holds
drawGL_reads == step_is_finished

\* ------------------------------------------------------ boundary features
\* M_PI as the fraction 355/113
PiNum == 355
PiDen == 113

\* INT_MAX
IntMax == 2147483647

Min(a, b) == IF a < b THEN a ELSE b
Max(a, b) == IF a > b THEN a ELSE b

\* the value is too large for an int
OutOfRange == -1

\* the integer part of m * (den/num) * (pn/pd), for positive arguments, or
\* OutOfRange when it exceeds INT_MAX; den is split so that no product
\* leaves the integers the model computes with
ScaledFloor(m, den, num, pn, pd) ==
  LET D == num * pd
      a == den \div D
      rest == (m * (den % D) * pn) \div D
  IN IF a > (IntMax - rest) \div (m * pn) THEN OutOfRange ELSE m * a * pn + rest

\* what the conversion to int may leave for a value no int holds: the
\* behaviour is undefined, the result is some int
CastOutcomes == {-IntMax - 1, -1, 0, 7, 20000, IntMax}

\* (int)(m_diam * M_PI / _ips), for positive arguments: the values it can have
CircleRatio(m_diam, _ips) ==
  LET v == ScaledFloor(m_diam, _ips[2], _ips[1], PiNum, PiDen) IN
    IF v = OutOfRange THEN CastOutcomes ELSE {v}
\* (int)(m_side / _ips)
SquareRatio(m_side, _ips) ==
  LET v == ScaledFloor(m_side, _ips[2], _ips[1], 1, 1) IN
    IF v = OutOfRange THEN CastOutcomes ELSE {v}

\* num_panels with a lower clamp of 3
CirclePanelsLowFloor(ratio) == Min(10000, Max(3, ratio))

\* num_panels of SolidCircle and SolidOval
CirclePanels(ratio) == Min(10000, Max(5, ratio))
\* num_panels of SolidSquare
SquarePanels(ratio) == 4 * Min(2500, Max(1, ratio))

\* the connectivity loop without the correction of the final index
PanelIdxOpen(num_panels) ==
  [k \in 1..(2 * num_panels) |-> IF k % 2 = 1 THEN (k - 1) \div 2 ELSE k \div 2]

\* idx[2*i] = i, idx[2*i+1] = i+1 for i < num_panels, then
\* idx[2*num_panels-1] = 0
PanelIdx(num_panels) ==
  [k \in 1..(2 * num_panels) |->
     IF k = 2 * num_panels THEN 0
     ELSE IF k % 2 = 1 THEN (k - 1) \div 2 ELSE k \div 2]

\* val[i] = 0.0
PanelVal(num_panels) == [i \in 1..num_panels |-> 0]

\* x[2*i], x[2*i+1] of the circle and the oval: each entry is held as the
\* vertex and the coordinate it belongs to
CircleX(num_panels) == [k \in 1..(2 * num_panels) |-> <<(k - 1) \div 2, (k - 1) % 2>>]

\* one of the four loops of the square: x[icnt++] twice for each of the
\* num_panels/4 points of side number side; each entry is held as the side,
\* the point of the side and the coordinate it belongs to
SquareSideX(side, per_side) ==
  [k \in 1..(2 * per_side) |-> <<side, (k - 1) \div 2, (k - 1) % 2>>]

\* the entries x holds after the four loops; it was created with
\* 2*num_panels entries
SquareX(num_panels) ==
  LET per_side == num_panels \div 4 IN
    SquareSideX(0, per_side) \o SquareSideX(1, per_side)
      \o SquareSideX(2, per_side) \o SquareSideX(3, per_side)

\* SolidCircle::init_elements, SolidOval::init_elements, from num_panels on
CircleInitElements(num_panels) ==
  [x |-> CircleX(num_panels), idx |-> PanelIdx(num_panels), val |-> PanelVal(num_panels)]

\* SolidSquare::init_elements, from num_panels on
SquareInitElements(num_panels) ==
  [x |-> SquareX(num_panels), idx |-> PanelIdx(num_panels), val |-> PanelVal(num_panels)]

\* a caller's init_elements(_ips) on a SolidCircle of diameter m_diam
circle_init_elements(m_diam, _ips) ==
  /\ \E ratio \in CircleRatio(m_diam, _ips) :
       /\ feat' = [shape |-> "circle", m_diam |-> m_diam, ips |-> _ips, ratio |-> ratio]
       /\ geom' = CircleInitElements(CirclePanels(ratio))
  /\ UNCHANGED <<simvars, dt, stepfuture, tasks, fg, pending, histvars, lastop, lastret,
                 cfgvars, retbody, batched, fldmoves, settings>>

\* a caller's init_elements(_ips) on a SolidOval of diameters m_diam, m_dmin
oval_init_elements(m_diam, m_dmin, _ips) ==
  /\ \E ratio \in CircleRatio(m_diam, _ips) :
       /\ feat' = [shape |-> "oval", m_diam |-> m_diam, m_dmin |-> m_dmin, ips |-> _ips,
                   ratio |-> ratio]
       /\ geom' = CircleInitElements(CirclePanels(ratio))
  /\ UNCHANGED <<simvars, dt, stepfuture, tasks, fg, pending, histvars, lastop, lastret,
                 cfgvars, retbody, batched, fldmoves, settings>>

\* a caller's init_elements(_ips) on a SolidSquare of side m_side
square_init_elements(m_side, _ips) ==
  /\ \E ratio \in SquareRatio(m_side, _ips) :
       /\ feat' = [shape |-> "square", m_side |-> m_side, ips |-> _ips, ratio |-> ratio]
       /\ geom' = SquareInitElements(SquarePanels(ratio))
  /\ UNCHANGED <<simvars, dt, stepfuture, tasks, fg, pending, histvars, lastop, lastret,
                 cfgvars, retbody, batched, fldmoves, settings>>

\* ---------------------------------------------------------- specification
\* the step() executions, statement by statement
TaskNext ==
  \/ \E s \in Slots : Diffuse(s)
  \/ \E s \in Slots : Convect(s)
  \/ \E s \in Slots : StepFails(s)
  \/ \E s \in Slots : LoadTime(s)
  \/ \E s \in Slots : StoreTime(s)

\* the orchestrator: stepping, polling and reset, with the lists filled from a
\* few inputs (a fixed and a body-bound packet, a full and a short batch)
Next ==
  \/ TaskNext
  \/ async_step
  \/ async_step_assign
  \/ test_for_new_results
  \/ reset_enter
  \/ reset
  \/ set_initialized
  \/ step
  \/ step_return
  \/ \E b \in {NullBody, 1} : nadds < MaxAdds /\ add_boundary(b, 1)
  \/ \E len \in {4, 28} : nadds < MaxAdds /\ add_particles(len)
  \/ \E moves \in BOOLEAN : nadds < MaxAdds /\ add_fldpts(28, moves)

Spec == Init /\ [][Next]_vars

\* the collection lists alone: every add_* input, and reset, with no step taken
NextColl ==
  \/ reset_enter
  \/ reset
  \/ \E b \in BodyRefs, n \in Panels : nadds < MaxCollAdds /\ add_boundary(b, n)
  \/ \E len \in ParticleLens : nadds < MaxCollAdds /\ add_particles(len)
  \/ \E len \in FldptLens, moves \in BOOLEAN : nadds < MaxCollAdds /\ add_fldpts(len, moves)

SpecColl == Init /\ [][NextColl]_vars

\* the search loop of add_boundary as a function of its inputs: bdry is any
\* list of collections, of any kinds and bodies, up to MaxList long
ListsUpTo(S, n) == UNION {[1..k -> S] : k \in 0..n}
AnyCollection ==
  {NewSurfaces(1, e, MoveTypeOf(b), b) : e \in {"active", "reactive"}, b \in BodyRefs}

InitMatch ==
  /\ InitRest
  /\ bdry \in ListsUpTo(AnyCollection, MaxList)

NextMatch == \E b \in BodyRefs, n \in Panels : nadds < 1 /\ add_boundary(b, n)

SpecMatch == InitMatch /\ [][NextMatch]_vars

\* the Body class alone: a caller makes bodies and sets and queries the
\* coordinates of the first one, with every input
NextKin ==
  \/ make_body
  \/ \E i \in Coords, val \in PosValues : nkin < MaxKinOps /\ set_pos(1, i, val)
  \/ \E i \in Coords, text \in Texts : nkin < MaxKinOps /\ set_pos_expr(1, i, text)
  \/ \E t \in TimeArgs : nkin < MaxKinOps /\ get_pos(1, t)
  \/ \E t \in TimeArgs : nkin < MaxKinOps /\ get_vel(1, t)

SpecKin == Init /\ [][NextKin]_vars

\* the body list: callers make bodies, register each once and hand texts to
\* their first coordinate; the GUI asks whether any body moves
NextMove ==
  \/ make_body
  \/ \E a \in BodyAddrs : (\A k \in 1..Len(bodies) : bodies[k] # a) /\ add_body(a)
  \/ \E a \in BodyAddrs, text \in Texts : nkin < MaxCfgOps /\ set_pos_expr(a, 1, text)
  \/ do_any_bodies_move

SpecMove == Init /\ [][NextMove]_vars

\* the advisories: one body, registered or not, with or without a text on
\* its first coordinate; the GUI sets freestream and diffusion, adds a batch
\* of particles, launches one step and asks for the advisories at any moment
NextCfg ==
  \/ TaskNext
  \/ launched < 1 /\ async_step
  \/ async_step_assign
  \/ test_for_new_results
  \/ heap[1] = NoBody /\ make_body
  \/ bodies = <<>> /\ add_body(1)
  \/ \E text \in Texts : nkin < 1 /\ set_pos_expr(1, 1, text)
  \/ do_any_bodies_move
  \/ \E _nff \in 0..1, _nbf \in 0..1 : check_simulation(_nff, _nbf)
  \/ \E v \in FsValues \X FsValues : set_fs(v)
  \/ \E d \in BOOLEAN : set_diffuse(d)
  \/ nadds < 1 /\ add_particles(28)

SpecCfg == Init /\ [][NextCfg]_vars

\* the statements of the execution of step() in slot s
TaskOf(s) == Diffuse(s) \/ Convect(s) \/ StepFails(s) \/ LoadTime(s) \/ StoreTime(s)

\* the step pipeline with a caller that launches and polls: every thread that
\* std::async started keeps running, the assignment of the returned future
\* completes, and the caller goes on polling
NextLive ==
  \/ TaskNext
  \/ async_step
  \/ async_step_assign
  \/ test_for_new_results

Fairness ==
  /\ \A s \in Slots : WF_vars(TaskOf(s))
  /\ WF_vars(async_step_assign)
  /\ WF_vars(test_for_new_results)

SpecLive == Init /\ [][NextLive]_vars /\ Fairness

\* the body registry
NextReg ==
  \/ make_body
  \/ \E a \in BodyAddrs, _name \in Names : set_name(a, _name)
  \/ \E a \in BodyAddrs : Len(bodies) < MaxRegList /\ add_body(a)
  \/ get_last_body
  \/ \E _name \in Names : get_pointer_to_body(_name)

SpecReg == Init /\ [][NextReg]_vars

\* a body of the body list, or no body: what a caller that takes its Body
\* pointers from the registry hands to add_boundary
ListedOrNull == {NullBody} \cup {bodies[k] : k \in 1..Len(bodies)}

\* reset next to everything it has to leave alone: one asynchronous step, a
\* boundary, a body, and the settings
NextRun ==
  \/ TaskNext
  \/ launched < 1 /\ async_step
  \/ async_step_assign
  \/ test_for_new_results
  \/ set_initialized
  \/ reset_enter
  \/ reset
  \/ get_last_body
  \/ clear_bodies
  \/ \E b \in ListedOrNull : nadds < 1 /\ add_boundary(b, 1)
  \/ set_fs(<<1, 0>>)
  \/ set_diffuse(FALSE)
  \/ set_description("run")
  \/ set_end_time(1)
  \/ set_max_steps(1)

SpecRun == Init /\ [][NextRun]_vars

\* boundaries bound to bodies of the registry
NextBind ==
  \/ make_body
  \/ \E a \in BodyAddrs : Len(bodies) < MaxBodies /\ add_body(a)
  \/ get_last_body
  \/ clear_bodies
  \/ \E b \in ListedOrNull : nadds < MaxAdds + 1 /\ add_boundary(b, 1)
  \/ reset_enter
  \/ reset
  \/ do_any_bodies_move

SpecBind == Init /\ [][NextBind]_vars

\* the geometry generators alone, each applied to a feature and a spacing:
\* init_elements is const and its result depends on nothing else
NextGeom ==
  \/ \E m_diam \in Sizes, _ips \in IpsValues :
       feat = NoFeature /\ circle_init_elements(m_diam, _ips)
  \/ \E m_diam \in Sizes, m_dmin \in Sizes, _ips \in IpsValues :
       feat = NoFeature /\ oval_init_elements(m_diam, m_dmin, _ips)
  \/ \E m_side \in Sizes, _ips \in IpsValues :
       feat = NoFeature /\ square_init_elements(m_side, _ips)

SpecGeom == Init /\ [][NextGeom]_vars

\* ------------------------------------------------------------------ claims
ListsEmpty == vort = <<>> /\ bdry = <<>> /\ fldpt = <<>>

\* the boundary collections the contract of add_boundary lets (bptr, geometry) join
MatchSet(bptr) ==
  {i \in 1..Len(bdry) :
     /\ bdry[i].elemt = "reactive"
     /\ bdry[i].movet = (IF bptr = NullBody THEN "fixed" ELSE "bodybound")
     /\ bptr # NullBody => bdry[i].body = bptr}

\* C1: at most one background execution of step() is running at any time,
\* whatever sequence of async_step, test_for_new_results and reset is called.
C1_OneStepInFlight ==
  Cardinality({s \in Slots : Running(s) /\ ~tasks[s].sync}) <= 1

\* C2: while reset waits for the step in flight it clears nothing; it goes on
\* only when no step is executing; and when it returns the three lists are
\* empty, the clock is 0 and no step is outstanding.
C2_ResetWaitsThenClears ==
  [][ /\ (fg = "reset_wait" /\ fg' = "reset_wait") => UNCHANGED listvars
      /\ (fg = "reset_wait" /\ fg' = "idle") =>
           /\ Quiescent
           /\ lastop' = "reset"
           /\ lastret' = "ok" =>
                /\ ListsEmpty'
                /\ time' = 0
                /\ ~step_has_started'
                /\ stepfuture' = NoFuture
                /\ \A s \in Slots : tasks'[s].pc = "none" ]_vars

\* C2 witness: reset has been called with a step running and geometry present
C2_Witness ==
  /\ fg = "reset_wait"
  /\ stepfuture # NoFuture
  /\ Running(stepfuture)
  /\ ~ListsEmpty

\* C3: polling never launches or re-runs a step; a poll that follows a poll
\* which returned true returns true; and with one async_step since the reset,
\* a poll that returns true finds step() executed exactly once, clock = dt.
C3_PollAfterTrue ==
  [][ test_for_new_results =>
        /\ launched' = launched /\ completed' = completed /\ time' = time
        /\ (lastop = "test" /\ lastret = "true") => lastret' = "true"
        /\ (nasync = 1 /\ nsync = 0 /\ lastret' = "true") =>
             (launched' = 1 /\ completed' = 1 /\ time' = dt) ]_vars

\* C3 witness: one async_step, polled until true
C3_Witness ==
  /\ lastop = "test" /\ lastret = "true"
  /\ nasync = 1 /\ completed = 1 /\ time = dt
  /\ step_is_finished /\ ~step_has_started

\* the result of the step that was started is there to be retrieved
ResultReady == stepfuture # NoFuture /\ tasks[stepfuture].pc = "done"

C5_FailureLeavesIdle ==
  (lastop = "test" /\ lastret = "threw" /\ fg = "idle") => ~step_has_started

\* C6: an execution of step() that reaches its clock advance has made one
\* diffusion pass, then one convection pass, both given the clock value the
\* advance starts from, the convection pass on the collections as the
\* diffusion pass left them, and the advance adds dt to the clock.
C6_StepOrder ==
  [][ \A s \in Slots : StoreTime(s) =>
        /\ tasks[s].passes = <<"diff", "conv">>
        /\ tasks[s].tdiff = time /\ tasks[s].tconv = time
        /\ ~tasks[s].disturbed
        /\ time' = time + dt ]_vars

\* C7: between two resets the clock never decreases, only a completed step()
\* changes it, after k completed steps it is k * dt, and the add_* calls and
\* test_for_new_results leave it unchanged.
C7_ClockCountsSteps ==
  [][ /\ time' = completed' * dt'
      /\ time' < time => lastop' = "reset"
      /\ (time' # time /\ time' # 0) => completed' = completed + 1
      /\ ( \/ test_for_new_results
           \/ \E b \in BodyRefs, n \in Panels : add_boundary(b, n)
           \/ \E len \in ParticleLens : add_particles(len)
           \/ \E len \in FldptLens, moves \in BOOLEAN : add_fldpts(len, moves) )
         => time' = time ]_vars

\* C8: add_boundary(body, geometry) adds the geometry to an existing collection
\* iff one is reactive, of the same motion kind and (body-bound) of the same
\* Body; otherwise it appends one new collection; all others stay as they were.
C8_AddBoundaryMatch ==
  [][ \A b \in BodyRefs, n \in Panels : add_boundary(b, n) =>
        /\ vort' = vort /\ fldpt' = fldpt
        /\ IF MatchSet(b) # {}
             THEN /\ Len(bdry') = Len(bdry)
                  /\ \E i \in MatchSet(b) :
                       /\ bdry'[i] = [bdry[i] EXCEPT !.geoms = Append(@, n)]
                       /\ \A j \in 1..Len(bdry) : j # i => bdry'[j] = bdry[j]
             ELSE bdry' = Append(bdry,
                    [shape |-> "Surfaces", elemt |-> "reactive",
                     movet |-> (IF b = NullBody THEN "fixed" ELSE "bodybound"),
                     body |-> b, geoms |-> <<n>>]) ]_vars

\* C8 witness: geometry has been merged into one collection beside another one
C8_Witness ==
  /\ lastop = "add_boundary"
  /\ Len(bdry) = 2
  /\ \E i \in 1..Len(bdry) : Len(bdry[i].geoms) = 2

C10_OneCollectionPerBody ==
  /\ \A i, j \in 1..Len(bdry) :
       (i # j) => ~(/\ bdry[i].elemt = bdry[j].elemt
                    /\ bdry[i].movet = bdry[j].movet
                    /\ bdry[i].body = bdry[j].body)
  /\ \A b \in BodyRefs :
       IF inserted[b] = 0
         THEN MatchSet(b) = {}
         ELSE /\ Cardinality(MatchSet(b)) = 1
              /\ \A i \in MatchSet(b) : SurfNPanels(bdry[i]) = inserted[b]
  /\ \A i \in 1..Len(bdry) : i \in MatchSet(bdry[i].body)
  /\ get_npanels = SumSeq([k \in 1..(MaxBodies + 1) |-> inserted[k - 1]])

\* C10 witness: three insertions, two of them for the same Body
C10_Witness ==
  /\ Len(bdry) = 2
  /\ \E i \in 1..Len(bdry) : bdry[i].body # NullBody /\ Len(bdry[i].geoms) = 2
  /\ get_npanels >= 4

\* the body-bound boundary collections
BodyBound == {i \in 1..Len(bdry) : bdry[i].movet = "bodybound"}

\* C11: add_boundary calls with different non-null Body references never share
\* a collection: after insertions for k distinct bodies there are exactly k
\* body-bound collections, each referencing its own Body and holding only the
\* panels inserted for it, whatever the order of the insertions.
C11_DistinctBodiesDistinctCollections ==
  /\ Cardinality(BodyBound) =
       Cardinality({b \in BodyRefs \ {NullBody} : inserted[b] > 0})
  /\ \A i \in BodyBound :
       /\ bdry[i].body # NullBody
       /\ inserted[bdry[i].body] > 0
       /\ SumSeq(bdry[i].geoms) = inserted[bdry[i].body]
  /\ \A i, j \in BodyBound : i # j => bdry[i].body # bdry[j].body

\* C11 witness: the first Body got a second packet, and another Body has its own
C11_Witness ==
  /\ Cardinality(BodyBound) = 2
  /\ \E i, j \in BodyBound :
       /\ i < j
       /\ bdry[i].body # bdry[j].body
       /\ Len(bdry[i].geoms) = 2
       /\ Len(bdry[j].geoms) = 1

\* the advisory lines of a result
Advisories(r) == {r[k] : k \in 1..Len(r)}

\* the body-motion test as check_simulation makes it
NoBodyMovement == ~MoveLoop(heap, 1, FALSE).some_move
ZeroFreestream == fs = <<0, 0>>

\* C12: check_simulation with zero boundary features and zero free elements
\* returns the 'No flow features and no bodies' advisory and no other one,
\* whatever the freestream, the diffusion setting and the body list are.
C12_NothingToRun ==
  [][ \A _nff \in 0..1, _nbf \in 0..1 :
        (check_simulation(_nff, _nbf) /\ _nbf = 0 /\ get_nparts = 0) =>
           retstr' = <<"NoFlowNoBodies">> ]_vars

\* C12 witness: that advisory, with a freestream, diffusion off and a moving body
C12_Witness ==
  /\ lastop = "check_simulation"
  /\ retstr = <<"NoFlowNoBodies">>
  /\ ~ZeroFreestream /\ ~diffuse
  /\ bodies # <<>> /\ ~NoBodyMovement

EarlyReturnApplies(_nbf) ==
  _nbf > 0 /\ get_nparts = 0 /\ ZeroFreestream /\ NoBodyMovement

\* C14: with a boundary present and diffusion disabled, and the early return
\* not applying, the result contains the no-diffusion advisory, whether or not
\* free elements are present.
C14_NoDiffusionAlways ==
  [][ \A _nff \in 0..1, _nbf \in 0..1 :
        (check_simulation(_nff, _nbf) /\ _nbf > 0 /\ ~diffuse
           /\ ~EarlyReturnApplies(_nbf)) =>
           "NoDiffusion" \in Advisories(retstr') ]_vars

\* C14, amended: with a boundary present, no free elements, diffusion disabled
\* and the early return not applying, the result is the no-diffusion advisory;
\* with free elements present check_simulation returns no advisory at all.
C14_NoDiffusionWithoutElements ==
  [][ \A _nff \in 0..1, _nbf \in 0..1 :
        check_simulation(_nff, _nbf) =>
          /\ (_nbf > 0 /\ ~diffuse /\ get_nparts = 0 /\ ~EarlyReturnApplies(_nbf))
               => retstr' = <<"NoDiffusion">>
          /\ get_nparts > 0 => retstr' = <<>> ]_vars

\* C14 witness: the no-diffusion advisory has been returned with a freestream set
C14_Witness ==
  /\ lastop = "check_simulation"
  /\ retstr = <<"NoDiffusion">>
  /\ ~diffuse /\ ~ZeroFreestream /\ get_nparts = 0

\* step() and async_step() can be called
CanStep == fg = "idle" /\ Quiescent
CanAsyncStep == fg = "idle"

\* C15: check_simulation leaves the collection lists, the clock, the
\* parameters and the step flags unchanged, and whatever it returns step()
\* and async_step() can be called as before and find the state they would
\* have found without the call.
C15_CheckIsAdvisory ==
  [][ \A _nff \in 0..1, _nbf \in 0..1 :
        check_simulation(_nff, _nbf) =>
          /\ UNCHANGED <<listvars, time, dt, fs, diffuse, flagvars>>
          /\ UNCHANGED <<stepfuture, tasks, pending, bodies, histvars>>
          /\ CanStep' = CanStep
          /\ CanAsyncStep' /\ CanAsyncStep ]_vars

\* C15 witness: an advisory was returned, and a step launched in the same run
\* has completed and been retrieved
C15_Witness ==
  /\ retstr # <<>>
  /\ lastop = "test" /\ lastret = "true"
  /\ completed = 1 /\ step_is_finished

\* C16: whenever the step-finished flag, which gates the reads of drawGL, is
\* true, no background step is executing.
C16_FinishedFlagGuardsReads ==
  drawGL_reads => \A s \in Slots : ~(Running(s) /\ ~tasks[s].sync)

\* C17: the status queries of the foreground thread write no collection state
\* and no Body state (stored position, stored velocity, evaluation time).
C17_QueriesReadOnly ==
  [][ ( \/ do_any_bodies_move
        \/ \E _nff \in 0..1, _nbf \in 0..1 : check_simulation(_nff, _nbf) )
      => UNCHANGED <<listvars, heap>> ]_vars

\* the derivative of a compiled function at time t
Derivative(f, t) == f[2] + 2 * f[3] * t

\* the velocity a Body reports at time t: the derivative of the compiled
\* coordinates, the stored velocity of the others
ReportedVel(b, t) ==
  [i \in Coords |-> IF b.pos_func[i] # NullFunc THEN Derivative(b.pos_func[i], t)
                    ELSE b.vel[i]]

BodyHasVelocity(b) ==
  \/ \E t \in {time, time + dt} : ReportedVel(b, t) # <<0, 0>>
  \/ b.avel # 0

C19_ConstantBody ==
  [][ \A t \in TimeArgs :
        /\ (get_vel(1, t) /\ exprset[1] = <<FALSE, FALSE>>) => heap'[1].vel = <<0, 0>>
        /\ (get_pos(1, t) /\ exprset[1] = <<FALSE, FALSE>>) => heap'[1].pos = stored[1] ]_vars

\* C19 witness: both coordinates were set to a constant, then the position
\* was asked for at a later time
C19_Witness ==
  /\ heap[1] # NoBody
  /\ exprset[1] = <<FALSE, FALSE>>
  /\ stored[1] = <<1, 1>>
  /\ heap[1].this_time = <<1, 0>>
  /\ heap[1].pos = <<1, 1>>

\* the last text handed to coordinate i of the Body at address a did not compile
FailedAttempt(a, i) ==
  /\ heap[a] # NoBody
  /\ heap[a].pos_expr[i] # ""
  /\ te_compile(heap[a].pos_expr[i]) = NullFunc

\* C20: after a set_pos(i, text) that failed to compile, get_pos(t)[i] is, for
\* every t, the constant last stored for coordinate i, also when the
\* coordinate held a compiled expression before that had been evaluated.
C20_FailedCompileKeepsConstant ==
  [][ \A t \in TimeArgs, i \in Coords :
        (get_pos(1, t) /\ FailedAttempt(1, i)) => heap'[1].pos[i] = stored[1][i] ]_vars

\* C21: get_vel(t) reports zero for every coordinate that has no compiled
\* expression at the call, whatever was done to the Body before, a failed
\* set_pos(i, text) over a differentiated expression included.
C21_NoExpressionZeroVelocity ==
  [][ \A t \in TimeArgs, i \in Coords :
        (get_vel(1, t) /\ heap[1].pos_func[i] = NullFunc) => heap'[1].vel[i] = 0 ]_vars

\* the Body at address a holds, for each compiled coordinate, the value of the
\* expression at its evaluation time
PosAtThisTime(b) ==
  \A i \in Coords :
    b.pos_func[i] # NullFunc => te_eval(b.pos_func[i], b.this_time) = <<b.pos[i], 0, 0>>

\* C22: after every get_pos(t) and every get_vel(t) the evaluation time of the
\* Body is t, the time requested, and the stored position of each compiled
\* coordinate is the expression at that evaluation time.
C22_PositionAtEvaluationTime ==
  [][ \A t \in TimeArgs :
        (get_pos(1, t) \/ get_vel(1, t)) =>
          /\ (\E i \in Coords : heap[1].pos_func[i] # NullFunc)
               => heap'[1].this_time = <<t, 0>>
          /\ PosAtThisTime(heap'[1]) ]_vars

\* C23: add_particles accepts exactly the batches whose length is a multiple of
\* 4: an empty batch changes no list, a batch of 4n entries is added without a
\* failure and raises get_nparts by n, any other length fails an assertion
\* with every list as it was.
C23_ParticleBatchLengths ==
  [][ \A len \in ParticleLens :
        add_particles(len) =>
          /\ len = 0 => (lastret' = "ok" /\ UNCHANGED listvars)
          /\ (len # 0 /\ len % 4 = 0) =>
               /\ lastret' = "ok"
               /\ fg' = "idle"
               /\ NElemsFrom(vort', 1) = NElemsFrom(vort, 1) + len \div 4
          /\ len % 4 # 0 => (lastret' = "abort" /\ UNCHANGED listvars) ]_vars

C25_KindInvariants ==
  /\ \A i \in 1..Len(bdry) :
       /\ bdry[i].movet = "bodybound" <=> bdry[i].body # NullBody
       /\ bdry[i].body = NullBody => bdry[i].movet = "fixed"
  /\ \A i \in 1..Len(vort) : vort[i].elemt = "active" /\ vort[i].s # NoStrength
  /\ \A i \in 1..Len(fldpt) : fldpt[i].elemt = "inert" /\ fldpt[i].s = NoStrength

\* C25 witness: a body-bound boundary collection, a free-element collection
\* and a field-point collection exist together
C25_Witness ==
  /\ \E i \in 1..Len(bdry) : bdry[i].body # NullBody
  /\ Len(vort) = 1 /\ Len(vort[1].s) = 3
  /\ Len(fldpt) = 1 /\ fldpt[1].n > 0

\* the collection c holds the n records (x, y, s, r) of the vector in
ReadAsRecords(c, in, e) ==
  /\ c.n = Len(in) \div 4
  /\ \A i \in 1..c.n :
       /\ c.x[1][i] = in[4 * (i - 1) + 1]
       /\ c.x[2][i] = in[4 * (i - 1) + 2]
       /\ c.r[i] = in[4 * (i - 1) + 4]
       /\ e # "inert" => c.s[1][i] = in[4 * (i - 1) + 3]

\* C30: the Points constructor, given a vector of 4n entries, passes its
\* assertion, reads no entry at or past the length of the vector, and builds n
\* elements, element i from the entries 4i, 4i+1 (position), 4i+3 (radius) and,
\* unless inert, 4i+2 (strength).
C30_PointsCtorRecords ==
  [][ /\ \A len \in ParticleLens :
           (add_particles(len) /\ vort = <<>> /\ len # 0 /\ len % 4 = 0) =>
             /\ lastret' = "ok"
             /\ PointsCtorReads(len, "active") \subseteq 0..(len - 1)
             /\ ReadAsRecords(vort'[1], ParticleVec(len), "active")
      /\ \A len \in FldptLens, moves \in BOOLEAN :
           (add_fldpts(len, moves) /\ fldpt = <<>> /\ len # 0 /\ len % 4 = 0) =>
             /\ lastret' = "ok"
             /\ PointsCtorReads(len, "inert") \subseteq 0..(len - 1)
             /\ ReadAsRecords(fldpt'[1], InVec(len), "inert") ]_vars

\* the packet p describes one closed contour of n panels
ClosedContour(p, n) ==
  LET idx == p.idx \o <<>>
      val == p.val \o <<>>
  IN /\ Len(p.x) = 2 * n
     /\ Len(idx) = 2 * n
     /\ Len(val) = n
     /\ \A i \in 1..n : val[i] = 0
     /\ \A i \in 0..(n - 1) : idx[2 * i + 1] = i /\ idx[2 * i + 2] = (i + 1) % n
     /\ \A k \in 1..Len(idx) : idx[k] >= 0 /\ idx[k] < n

\* the panel count the generator of feature f chooses
PanelsOf(f) ==
  IF f.shape = "square" THEN SquarePanels(f.ratio) ELSE CirclePanels(f.ratio)

\* C26: every packet the circle, oval and square generators produce describes
\* one closed contour of n panels: 2n coordinates, 2n connectivity entries, n
\* values that are all zero, edge i from vertex i to vertex (i+1) mod n, and
\* every index below n.
C26_ClosedContour ==
  feat # NoFeature => (PanelsOf(feat) >= 1 /\ ClosedContour(geom, PanelsOf(feat)))

\* C26 witness: a square of eight panels, two to a side, whose last edge
\* returns to vertex 0
C26_Witness ==
  /\ feat # NoFeature
  /\ feat.shape = "square"
  /\ Len(geom.val) = 8
  /\ geom.idx[15] = 7
  /\ geom.idx[16] = 0

\* C27: on an empty body list get_last_body creates exactly one Body, named
\* "ground", at (0,0) with zero velocity, appends it and returns it; on a
\* non-empty list it returns the last body and leaves list and bodies alone.
C27_GetLastBody ==
  [][ get_last_body =>
        IF bodies = <<>>
          THEN /\ heap[retbody'] = NoBody
               /\ bodies' = <<retbody'>>
               /\ heap'[retbody'].name = "ground"
               /\ heap'[retbody'].pos = <<0, 0>>
               /\ heap'[retbody'].vel = <<0, 0>>
               /\ heap'[retbody'].avel = 0
               /\ \A a \in BodyAddrs \ {retbody'} : heap'[a] = heap[a]
          ELSE /\ retbody' = bodies[Len(bodies)]
               /\ UNCHANGED <<bodies, heap>> ]_vars

\* C27 witness: the call on the empty list left the one body it created
C27_Witness ==
  /\ lastop = "get_last_body"
  /\ Len(bodies) = 1
  /\ retbody = bodies[1]
  /\ heap[retbody].name = "ground"
  /\ \A a \in BodyAddrs \ {retbody} : heap[a] = NoBody

\* the positions of the body list whose body has the given name
NamedIn(bl, h, _name) == {k \in 1..Len(bl) : h[bl[k]].name = _name}

\* C29: get_pointer_to_body(name) returns a body of the list whose name is the
\* argument when there is one, leaving list and bodies alone; only when there
\* is none does it create a body named "ground", append it and return it.
C29_PointerToNamedBody ==
  [][ \A _name \in Names :
        get_pointer_to_body(_name) =>
          IF NamedIn(bodies, heap, _name) # {}
            THEN /\ \E k \in NamedIn(bodies, heap, _name) : retbody' = bodies[k]
                 /\ UNCHANGED <<bodies, heap>>
            ELSE /\ heap[retbody'] = NoBody
                 /\ bodies' = Append(bodies, retbody')
                 /\ heap'[retbody'].name = "ground" ]_vars

\* a poll returned true with the started flag cleared and the finished flag set
PollDelivered ==
  /\ lastop = "test" /\ lastret = "true"
  /\ ~step_has_started
  /\ step_is_finished

\* C28: whenever a step has been launched, a caller that keeps polling
\* eventually gets true with the started flag cleared and the finished flag
\* set; and every execution of step() that was launched eventually reaches its
\* clock advance and returns.
C28_StepPipelineLive ==
  /\ step_has_started ~> PollDelivered
  /\ \A n \in 1..MaxSteps : (launched >= n) ~> (completed >= n)

\* the motion kind add_fldpts derives from its _moves flag
MoveKind(moves) == IF moves THEN "lagrangian" ELSE "fixed"

\* C31: the motion kind of the field-point collection is that of the first
\* add_fldpts batch inserted since the reset: a later add_fldpts, whatever its
\* _moves flag, neither creates a second collection nor changes the motion
\* kind, so its points take the motion kind of the first batch.
C31_FirstBatchDecidesMotion ==
  /\ fldmoves = <<>> <=> fldpt = <<>>
  /\ fldmoves # <<>> =>
       /\ Len(fldpt) = 1
       /\ fldpt[1].movet = MoveKind(fldmoves[1])
       /\ fldpt[1].n = batched[2]

\* C31 witness: a batch with _moves = true went into the collection that a
\* batch with _moves = false had created, which stayed fixed
C31_Witness ==
  /\ fldmoves = <<FALSE, TRUE>>
  /\ Len(fldpt) = 1
  /\ fldpt[1].movet = "fixed"
  /\ fldpt[1].n = 14

\* what reset has to leave alone
ResetFrame == <<bodies, heap, dt, diffuse, fs, settings>>

\* C32: reset empties the three collection lists, sets the clock to 0 and
\* clears the initialized, started and finished flags; it leaves the body
\* list, the time step, the diffusion switch, the freestream, the end-time and
\* max-step settings and the description as they were; and the body list is
\* emptied by clear_bodies alone.
C32_ResetClearsRunStateOnly ==
  [][ /\ (reset_enter \/ reset) => UNCHANGED ResetFrame
      /\ (reset /\ lastret' = "ok") =>
           /\ ListsEmpty'
           /\ time' = 0
           /\ ~sim_is_initialized' /\ ~step_has_started' /\ ~step_is_finished'
      /\ (bodies # <<>> /\ bodies' = <<>>) => clear_bodies ]_vars

\* C32 witness: reset has returned with a body, a freestream, the diffusion
\* switch and every setting as the caller had left them
C32_Witness ==
  /\ lastop = "reset" /\ lastret = "ok"
  /\ ListsEmpty /\ time = 0
  /\ bodies # <<>>
  /\ fs = <<1, 0>>
  /\ ~diffuse
  /\ settings = [description |-> "run", end_time |-> 1, use_end_time |-> TRUE,
                 max_steps |-> 1, use_max_steps |-> TRUE]

\* the bodies that body-bound boundary collections refer to
BoundBodies == {bdry[i].body : i \in BodyBound}

\* C33: every Body that a body-bound boundary collection refers to is in the
\* body list, so do_any_bodies_move, which scans the body list, looks at it.
C33_BoundBodiesListed ==
  \A b \in BoundBodies : \E k \in 1..Len(bodies) : bodies[k] = b

\* the entries of x that the loop of side number side wrote
SideEntries(p, side) == {k \in 1..Len(p.x) : p.x[k][1] = side}

\* C34: for every positive size and spacing a circle or an oval has between 5
\* and 10000 panels, and a square has a multiple of 4 panels between 4 and
\* 10000, the same number on each of its sides.
C34_PanelCountClamped ==
  feat # NoFeature =>
    LET n == Len(geom.val) IN
      IF feat.shape = "square"
        THEN /\ n % 4 = 0 /\ n >= 4 /\ n <= 10000
             /\ Len(geom.x) = 2 * n
             /\ \A side \in 0..3 : Cardinality(SideEntries(geom, side)) = 2 * (n \div 4)
        ELSE n >= 5 /\ n <= 10000

\* C34 witness: a square whose side holds more than 2500 spacings got 10000
\* panels, 2500 to a side
C34_Witness ==
  /\ feat # NoFeature
  /\ feat.shape = "square"
  /\ feat.ratio > 2500
  /\ Len(geom.val) = 10000
  /\ Cardinality(SideEntries(geom, 3)) = 5000

====
